---- MODULE Spec2Model ----
(***************************************************************************)
(* Model of the KintoXYZ/hyperliquid signing and wire-encoding pipeline:   *)
(*   src/src/index.ts          Hyperliquid (connect / initialize) and the   *)
(*                             signing utilities (actionHash, signL1Action, *)
(*                             signUserSignedAction, splitSig, floatToWire, *)
(*                             orderToWire, orderWireToAction)              *)
(*   src/src/rest/exchange.ts  ExchangeAPI (getAssetIndex and the sixteen   *)
(*                             operations)                                  *)
(*                                                                         *)
(* Strings that the code inspects character by character (decimal strings, *)
(* hex strings) are sequences of one-character strings.  Numbers that the  *)
(* code formats are exact decimals: a sign, the digits of the integer part *)
(* and FracDigits fractional digits.                                       *)
(***************************************************************************)
EXTENDS Integers, Sequences, FiniteSets, TLC

VARIABLES
    fn,     \* the pure function applied on its own ("none" before)
    arg,    \* the input of that function
    ret,    \* the result of that function
    IS_MAINNET,         \* ExchangeAPI.IS_MAINNET (= !testnet)
    turnkeyAccount,     \* whether the instance was built with a turnkey account
    hasSignTypedData,   \* whether this.account has a signTypedData method
    _i,                 \* ExchangeAPI._i: 0 until the first successful resolution
    timers,             \* setTimeout callbacks scheduled and not yet run
    scheduled,          \* setTimeout callbacks ever scheduled
    _initialized,       \* Hyperliquid._initialized
    _initializing,      \* Hyperliquid._initializing: 0 (null) or the run awaited
    runs,               \* each initialize() run's position
    now,                \* the clock Date.now() reads
    calls,              \* every ExchangeAPI call: its request, position and trace
    terminated          \* the host has ended the process

apiVars == <<IS_MAINNET, turnkeyAccount, hasSignTypedData, _i, timers, scheduled,
             _initialized, _initializing, runs, now, calls, terminated>>

vars == <<fn, arg, ret, IS_MAINNET, turnkeyAccount, hasSignTypedData, _i, timers,
          scheduled, _initialized, _initializing, runs, now, calls, terminated>>

(***************************************************************************)
(* Generic helpers                                                         *)
(***************************************************************************)
Zeros(n) == [i \in 1..n |-> 0]

Min(a, b) == IF a < b THEN a ELSE b

Max(a, b) == IF a > b THEN a ELSE b

\* String.prototype.slice(a, b) on a character sequence (0-based, b exclusive,
\* both clamped to the length).
slice(s, a, b) == SubSeq(s, Min(a, Len(s)) + 1, Min(b, Len(s)))

\* JavaScript null, for values that are otherwise character sequences.
Null == <<"null">>

\* A thrown error and a returned value, as records with different fields.
Throw(msg) == [throw |-> [message |-> msg]]

Return(v) == [val |-> v]

Threw(r) == "throw" \in DOMAIN r

\* The ExchangeAPI variables while a pure function is exercised on its own.
ApiIdle ==
    /\ IS_MAINNET = TRUE /\ turnkeyAccount = FALSE /\ hasSignTypedData = TRUE
    /\ _i = 0 /\ timers = 0 /\ scheduled = 0
    /\ _initialized = FALSE /\ _initializing = 0
    /\ runs = <<>> /\ now = 0 /\ calls = <<>> /\ terminated = FALSE

(***************************************************************************)
(* Numeric canonicalizer: floatToWire (index.ts 309-317)                   *)
(***************************************************************************)
\* Resolution of the exact-decimal model: fractional digits kept per number.
FracDigits == 13

\* x.toFixed(8)
WireDecimals == 8

\* the guard 1e-12
GuardExponent == 12

DigitChar == <<"0", "1", "2", "3", "4", "5", "6", "7", "8", "9">>

CharDigit(c) == CHOOSE d \in 0..9 : DigitChar[d + 1] = c

Chars(ds) == [i \in 1..Len(ds) |-> DigitChar[ds[i] + 1]]

Digits(cs) == [i \in 1..Len(cs) |-> CharDigit(cs[i])]

AllZero(ds) == \A i \in 1..Len(ds) : ds[i] = 0

Num(neg, int, frac) == [neg |-> neg, int |-> int, frac |-> frac]

IsZero(x) == (\A i \in 1..Len(x.int) : x.int[i] = 0) /\ (\A i \in 1..Len(x.frac) : x.frac[i] = 0)

\* Drop leading zeros of an integer digit string, keeping one digit.
RECURSIVE StripLeading(_)
StripLeading(ds) ==
    IF Len(ds) > 1 /\ ds[1] = 0 THEN StripLeading(Tail(ds)) ELSE ds

RECURSIVE StripTrailing(_)
StripTrailing(ds) ==
    IF Len(ds) > 0 /\ ds[Len(ds)] = 0
    THEN StripTrailing(SubSeq(ds, 1, Len(ds) - 1)) ELSE ds

\* Decimal digits of a natural number (no leading zeros).
RECURSIVE NatDigits(_)
NatDigits(n) == IF n < 10 THEN <<n>> ELSE Append(NatDigits(n \div 10), n % 10)

RECURSIVE DigitsNat(_)
DigitsNat(ds) ==
    IF ds = <<>> THEN 0 ELSE 10 * DigitsNat(SubSeq(ds, 1, Len(ds) - 1)) + ds[Len(ds)]

\* Add one unit in the last place of a digit string (carry may add a digit).
RECURSIVE Inc(_)
Inc(ds) ==
    IF ds = <<>> THEN <<1>>
    ELSE IF ds[Len(ds)] < 9 THEN [ds EXCEPT ![Len(ds)] = @ + 1]
    ELSE Append(Inc(SubSeq(ds, 1, Len(ds) - 1)), 0)

\* d[.ddd]e+N from the significant digits and the decimal exponent.
ExponentString(sig, e) ==
    <<DigitChar[sig[1] + 1]>>
    \o (IF Len(sig) > 1 THEN <<".">> \o [i \in 1..(Len(sig) - 1) |-> DigitChar[sig[i + 1] + 1]]
        ELSE <<>>)
    \o <<"e", "+">> \o Chars(NatDigits(e))

\* Number::toString for a value >= 1e21 (an integer).
NumberToString(x) == ExponentString(StripTrailing(x.int), Len(x.int) - 1)

\* The digits of |x| rounded to d fractional digits, a tie going up.
RoundedDigits(x, d) ==
    IF x.frac[d + 1] >= 5 THEN Inc(x.int \o SubSeq(x.frac, 1, d))
    ELSE x.int \o SubSeq(x.frac, 1, d)

\* The digit string n written with its last d digits after the point.
FixedString(n, d) ==
    [i \in 1..(Len(n) + 1) |->
        IF i <= Len(n) - d THEN DigitChar[n[i] + 1]
        ELSE IF i = Len(n) - d + 1 THEN "."
        ELSE DigitChar[n[i - 1] + 1]]

\* Number.prototype.toFixed(d): the sign is written when x < 0 (not for -0);
\* a value >= 1e21 is written by Number::toString; otherwise the value is
\* rounded to d fractional digits.
toFixed(x, d) ==
    (IF x.neg /\ ~IsZero(x) THEN <<"-">> ELSE <<>>)
    \o (IF Len(x.int) >= 22 THEN NumberToString(x) ELSE FixedString(RoundedDigits(x, d), d))

\* Index of the first character of cs that is c, 0 when there is none.
IndexOf(cs, c) ==
    IF \E i \in 1..Len(cs) : cs[i] = c
    THEN CHOOSE i \in 1..Len(cs) : cs[i] = c /\ \A j \in 1..(i - 1) : cs[j] # c
    ELSE 0

\* The number with integer digits ip, fractional digits fp and exponent ex.
ParsedNum(neg, ip, fp, ex) ==
    Num(neg,
        StripLeading(SubSeq(ip \o fp \o Zeros(ex + FracDigits), 1, Len(ip) + ex)),
        SubSeq(ip \o fp \o Zeros(ex + FracDigits), Len(ip) + ex + 1,
               Len(ip) + ex + FracDigits))

\* The mantissa digits[.digits] and the exponent of an unsigned literal.
ParsedMantissa(neg, mant, dot, ex) ==
    ParsedNum(neg,
              Digits(IF dot = 0 THEN mant ELSE SubSeq(mant, 1, dot - 1)),
              Digits(IF dot = 0 THEN <<>> ELSE SubSeq(mant, dot + 1, Len(mant))),
              ex)

ParsedUnsigned(neg, body, e) ==
    ParsedMantissa(neg,
                   IF e = 0 THEN body ELSE SubSeq(body, 1, e - 1),
                   IndexOf(IF e = 0 THEN body ELSE SubSeq(body, 1, e - 1), "."),
                   IF e = 0 THEN 0 ELSE DigitsNat(Digits(SubSeq(body, e + 2, Len(body)))))

\* parseFloat on the strings toFixed and floatToWire produce:
\* [-]digits[.digits][e+digits]
parseFloat(cs) ==
    IF Len(cs) > 0 /\ cs[1] = "-"
    THEN ParsedUnsigned(TRUE, Tail(cs), IndexOf(Tail(cs), "e"))
    ELSE ParsedUnsigned(FALSE, cs, IndexOf(cs, "e"))

\* |a| - |b| digit by digit for |a| >= |b| (equal lengths): the digits 1..n of
\* the difference, given the borrow into digit n.
RECURSIVE SubDigits(_, _, _, _)
SubDigits(a, b, n, borrow) ==
    IF n = 0 THEN <<>>
    ELSE IF a[n] - b[n] - borrow < 0
    THEN Append(SubDigits(a, b, n - 1, 1), a[n] - b[n] - borrow + 10)
    ELSE Append(SubDigits(a, b, n - 1, 0), a[n] - b[n] - borrow)

\* a >= b on equal-length digit strings, compared from digit i on.
RECURSIVE GeDigits(_, _, _)
GeDigits(a, b, i) ==
    IF i > Len(a) THEN TRUE
    ELSE IF a[i] # b[i] THEN a[i] > b[i]
    ELSE GeDigits(a, b, i + 1)

\* All digits of x, the integer part padded on the left to n digits.
Padded(x, n) == Zeros(n - Len(x.int)) \o x.int \o x.frac

AbsDiffDigits(da, db) ==
    IF GeDigits(da, db, 1) THEN SubDigits(da, db, Len(da), 0)
    ELSE SubDigits(db, da, Len(da), 0)

\* Math.abs(a - b) for a and b of the same sign (or one of them zero), as a
\* digit string whose last FracDigits digits are fractional.
AbsDiff(a, b) ==
    AbsDiffDigits(Padded(a, Max(Len(a.int), Len(b.int))),
                  Padded(b, Max(Len(a.int), Len(b.int))))

\* diff >= 10^-p : some nonzero digit at or above the p-th fractional place.
GePow(diff, p) ==
    \E i \in 1..(Len(diff) - FracDigits + p) : diff[i] # 0

\* Whether /\.?0+$/ matches cs from position i on.
MatchesAt(cs, i) ==
    /\ i + (IF cs[i] = "." THEN 1 ELSE 0) <= Len(cs)
    /\ \A j \in (i + (IF cs[i] = "." THEN 1 ELSE 0))..Len(cs) : cs[j] = "0"

\* s.replace(/\.?0+$/, ''): the leftmost match is cut off.
stripTrailingZeros(cs) ==
    IF \E i \in 1..Len(cs) : MatchesAt(cs, i)
    THEN SubSeq(cs, 1, (CHOOSE k \in 1..Len(cs) :
                           MatchesAt(cs, k) /\ \A j \in 1..(k - 1) : ~MatchesAt(cs, j)) - 1)
    ELSE cs

NormalizedZero(normalized) ==
    IF normalized = <<"-", "0">> THEN <<"0">> ELSE normalized

\* floatToWire from the guard on, given rounded = x.toFixed(8).
GuardedWire(x, rounded) ==
    IF GePow(AbsDiff(parseFloat(rounded), x), GuardExponent)
    THEN Throw("floatToWire causes rounding")
    ELSE Return(NormalizedZero(stripTrailingZeros(rounded)))

\* floatToWire without its guard: the rounded value goes out silently.
floatToWireUnguarded(x) ==
    Return(NormalizedZero(stripTrailingZeros(toFixed(x, WireDecimals))))

floatToWire(x) == GuardedWire(x, toFixed(x, WireDecimals))

(***************************************************************************)
(* Specification SpecWire: floatToWire applied to bounded inputs           *)
(***************************************************************************)
\* Integer parts: small ones, 5e20, and 1e21, 1.5e21, 1e30 (toFixed's other
\* branch).
SmallInts == {<<0>>, <<1>>, <<9>>, <<1, 0>>, <<9, 9>>, <<1, 0, 0>>, <<3, 0, 0, 0>>}

BigInts == {<<1>> \o Zeros(21), <<1, 5>> \o Zeros(20), <<1>> \o Zeros(30),
            <<5>> \o Zeros(20)}

\* The first eight fractional digits.
Frac8s == {Zeros(8), <<5, 0, 0, 0, 0, 0, 0, 0>>, <<1, 2, 3, 4, 5, 6, 7, 8>>,
           <<0, 0, 0, 0, 0, 0, 0, 1>>, <<9, 9, 9, 9, 9, 9, 9, 9>>,
           <<2, 5, 0, 0, 0, 0, 0, 0>>, <<1, 0, 0, 0, 0, 0, 0, 0>>}

\* The digits after the eighth: 0, 5e-13, 1e-12, 1e-9, 5e-9, 1e-8 - 5e-13.
Tails5 == {Zeros(5), <<0, 0, 0, 0, 5>>, <<0, 0, 0, 1, 0>>, <<1, 0, 0, 0, 0>>,
           <<5, 0, 0, 0, 0>>, <<9, 9, 9, 9, 5>>}

FracTail(t) == t \o Zeros(FracDigits - WireDecimals - 5)

WireInputs ==
    {Num(n, i, f \o FracTail(t)) : n \in BOOLEAN, i \in SmallInts, f \in Frac8s, t \in Tails5}
    \cup {Num(n, i, Zeros(FracDigits)) : n \in BOOLEAN, i \in BigInts}

InitWire == fn = "none" /\ arg \in WireInputs /\ ret = <<>> /\ ApiIdle

ApplyFloatToWire ==
    /\ fn = "none"
    /\ fn' = "floatToWire"
    /\ ret' = floatToWire(arg)
    /\ UNCHANGED arg
    /\ UNCHANGED apiVars

NextWire == ApplyFloatToWire

SpecWire == InitWire /\ [][NextWire]_vars

(***************************************************************************)
(* Signature splitter: splitSig (index.ts 302-307)                         *)
(***************************************************************************)
HexChar == <<"0", "1", "2", "3", "4", "5", "6", "7", "8", "9",
             "a", "b", "c", "d", "e", "f">>

IsHex(c) == \E d \in 1..16 : HexChar[d] = c

HexVal(c) == (CHOOSE d \in 1..16 : HexChar[d] = c) - 1

\* parseInt yields NaN when no digit can be read; every value read is >= 0.
NaN == 0 - 1

\* parseInt(cs, 16): the value of the longest prefix of hex digits.
RECURSIVE parseHex(_, _, _)
parseHex(cs, i, acc) ==
    IF i > Len(cs) \/ ~IsHex(cs[i]) THEN acc
    ELSE parseHex(cs, i + 1, 16 * acc + HexVal(cs[i]))

parseInt16(cs) == IF Len(cs) = 0 \/ ~IsHex(cs[1]) THEN NaN ELSE parseHex(cs, 1, 0)

splitSig(sig) ==
    [r |-> <<"0", "x">> \o slice(sig, 2, 66),
     s |-> <<"0", "x">> \o slice(sig, 66, 130),
     v |-> parseInt16(slice(sig, 130, 132))]

(***************************************************************************)
(* Specification SpecSig: splitSig applied to raw signatures of 0 to       *)
(* MaxSigHex hex digits after the 0x prefix                                *)
(***************************************************************************)
MaxSigHex == 134

\* Two digit patterns, so that r, s and v differ by position.
SigPattern(k, i) == HexChar[((i * k) % 16) + 1]

RawSig(n, k) == <<"0", "x">> \o [i \in 1..n |-> SigPattern(k, i)]

SigInputs == {RawSig(n, k) : n \in 0..MaxSigHex, k \in {3, 7}}

InitSig == fn = "none" /\ arg \in SigInputs /\ ret = <<>> /\ ApiIdle

ApplySplitSig ==
    /\ fn = "none"
    /\ fn' = "splitSig"
    /\ ret' = splitSig(arg)
    /\ UNCHANGED arg
    /\ UNCHANGED apiVars

NextSig == ApplySplitSig

SpecSig == InitSig /\ [][NextSig]_vars

(***************************************************************************)
(* Action hasher: actionHash (index.ts 177-195)                            *)
(***************************************************************************)
\* viem's hexToBytes on "0x" followed by an even number of hex digits.
hexToBytes(hex) ==
    [i \in 1..((Len(hex) - 2) \div 2) |->
        16 * HexVal(hex[2 * i + 1]) + HexVal(hex[2 * i + 2])]

addressToBytes(address) == hexToBytes(address)

\* DataView.setBigUint64(offset, n, littleEndian): the eight bytes of n.
RECURSIVE BigEndian(_, _)
BigEndian(n, k) ==
    IF k = 0 THEN <<>> ELSE Append(BigEndian(n \div 256, k - 1), n % 256)

RECURSIVE LittleEndian(_, _)
LittleEndian(n, k) ==
    IF k = 0 THEN <<>> ELSE <<n % 256>> \o LittleEndian(n \div 256, k - 1)

\* TypedArray.set(bytes, offset) / DataView.setUint8: overwrite from offset on.
WriteAt(data, offset, bytes) ==
    [i \in 1..Len(data) |->
        IF i > offset /\ i <= offset + Len(bytes) THEN bytes[i - offset] ELSE data[i]]

\* The buffer with the marker (and the vault's bytes) written after the nonce.
WithVault(data, n, vaultAddress) ==
    IF vaultAddress = Null THEN WriteAt(data, n + 8, <<0>>)
    ELSE WriteAt(WriteAt(data, n + 8, <<1>>), n + 9, addressToBytes(vaultAddress))

\* The wrong-byte-order variant of the buffer (setBigUint64(..., true)).
actionHashDataLE(msgPackBytes, vaultAddress, nonce) ==
    WithVault(WriteAt(WriteAt(Zeros(Len(msgPackBytes)
                                    + (IF vaultAddress = Null THEN 9 ELSE 29)),
                              0, msgPackBytes),
                      Len(msgPackBytes), LittleEndian(nonce, 8)),
              Len(msgPackBytes), vaultAddress)

\* The buffer actionHash hands to keccak256 (index.ts 183-193).
actionHashData(msgPackBytes, vaultAddress, nonce) ==
    WithVault(WriteAt(WriteAt(Zeros(Len(msgPackBytes)
                                    + (IF vaultAddress = Null THEN 9 ELSE 29)),
                              0, msgPackBytes),
                      Len(msgPackBytes), BigEndian(nonce, 8)),
              Len(msgPackBytes), vaultAddress)

\* keccak256 is kept symbolic: the digest stands for the bytes it was taken of.
keccak256(data) == [keccak256 |-> data]

(***************************************************************************)
(* Specification SpecHash: the hashed buffer for bounded serializations,   *)
(* nonces and vault addresses                                              *)
(***************************************************************************)
MaxSerLen == 3

SerBytes == {0, 147, 255}

RECURSIVE SeqsUpTo(_, _)
SeqsUpTo(S, n) ==
    IF n = 0 THEN {<<>>}
    ELSE LET shorter == SeqsUpTo(S, n - 1)
         IN  shorter \cup {Append(s, b) : s \in {t \in shorter : Len(t) = n - 1}, b \in S}

HashNonces == {0, 1, 255, 256, 65535, 16777218, 2147483647}

AddressOf(k) == <<"0", "x">> \o [i \in 1..40 |-> SigPattern(k, i)]

HashVaults == {Null, AddressOf(3), AddressOf(5)}

HashInputs ==
    {[msgPackBytes |-> b, vaultAddress |-> v, nonce |-> n] :
        b \in SeqsUpTo(SerBytes, MaxSerLen), v \in HashVaults, n \in HashNonces}

InitHash == fn = "none" /\ arg \in HashInputs /\ ret = <<>> /\ ApiIdle

ApplyActionHash ==
    /\ fn = "none"
    /\ fn' = "actionHash"
    /\ ret' = actionHashData(arg.msgPackBytes, arg.vaultAddress, arg.nonce)
    /\ UNCHANGED arg
    /\ UNCHANGED apiVars

NextHash == ApplyActionHash

SpecHash == InitHash /\ [][NextHash]_vars

(***************************************************************************)
(* Wire encoder (index.ts 162-175, 339-361, 373-378)                       *)
(***************************************************************************)
\* JavaScript undefined for an optional string, object or address.
UndefinedStr == "undefined"

UndefinedObj == [undefined |-> TRUE]

Undefined == <<"undefined">>

\* An empty object, to spread nothing into a literal.
Nothing == <<>>

TriggerWire(trigger, px) ==
    IF Threw(px) THEN px
    ELSE Return([trigger |-> [isMarket |-> trigger.isMarket, triggerPx |-> px.val,
                              tpsl |-> trigger.tpsl]])

orderTypeToWire(orderType) ==
    IF "limit" \in DOMAIN orderType THEN Return([limit |-> orderType.limit])
    ELSE IF "trigger" \in DOMAIN orderType
    THEN TriggerWire(orderType.trigger, floatToWire(orderType.trigger.triggerPx))
    ELSE Throw("Invalid order type")

\* The wire order, given its three conversions in the order the object
\* literal evaluates them (p, s, t).
OrderWire(order, asset, p, s, t) ==
    IF Threw(p) THEN p ELSE IF Threw(s) THEN s ELSE IF Threw(t) THEN t
    ELSE Return([a |-> asset, b |-> order.is_buy, p |-> p.val, s |-> s.val,
                 r |-> order.reduce_only, t |-> t.val]
                @@ (IF order.cloid # UndefinedStr THEN [c |-> order.cloid]
                    ELSE Nothing))

orderToWire(order, asset) ==
    OrderWire(order, asset, floatToWire(order.limit_px), floatToWire(order.sz),
              orderTypeToWire(order.order_type))

orderWireToAction(orders, grouping, builder) ==
    [type |-> "order", orders |-> orders, grouping |-> grouping]
    @@ (IF builder # UndefinedObj THEN [builder |-> builder] ELSE Nothing)

(***************************************************************************)
(* Typed-data signer (index.ts 148-160, 181-300)                           *)
(***************************************************************************)
ZeroAddress == <<"0", "x">> \o [i \in 1..40 |-> "0"]

phantomDomain ==
    [name |-> "Exchange", version |-> "1", chainId |-> 1337,
     verifyingContract |-> ZeroAddress]

agentTypes ==
    [Agent |-> <<[name |-> "source", type |-> "string"],
                 [name |-> "connectionId", type |-> "bytes32"]>>]

\* @msgpack/msgpack's encode is kept symbolic: the serialization of an action
\* is one opaque unit that stands for the action it was taken of.
encode(action) == <<action>>

actionHash(action, vaultAddress, nonce) ==
    keccak256(actionHashData(encode(action), vaultAddress, nonce))

constructPhantomAgent(hash, isMainnet) ==
    [source |-> IF isMainnet THEN "a" ELSE "b", connectionId |-> hash]


\* signL1Action signing under the user-signed domain instead of the phantom
\* agent's.
signL1ActionUserDomain(action, activePool, nonce, isMainnet) ==
    [domain |-> [name |-> "HyperliquidSignTransaction", version |-> "1",
                 chainId |-> 421614, verifyingContract |-> ZeroAddress],
     types |-> agentTypes,
     primaryType |-> "Agent",
     message |-> constructPhantomAgent(actionHash(action, activePool, nonce), isMainnet)]

\* The typed data signL1Action hands to signInner.
signL1Action(action, activePool, nonce, isMainnet) ==
    [domain |-> phantomDomain,
     types |-> agentTypes,
     primaryType |-> "Agent",
     message |-> constructPhantomAgent(actionHash(action, activePool, nonce), isMainnet)]

userSignedDomain ==
    [name |-> "HyperliquidSignTransaction", version |-> "1", chainId |-> 421614,
     verifyingContract |-> ZeroAddress]

\* The variant that leaves the caller's signatureChainId in place.
stampActionKeepChainId(action, isMainnet) ==
    [hyperliquidChain |-> IF isMainnet THEN "Mainnet" ELSE "Testnet"] @@ action

\* signUserSignedAction stamps the action in place, then signs its fields.
stampAction(action, isMainnet) ==
    [signatureChainId |-> "0x66eee",
     hyperliquidChain |-> IF isMainnet THEN "Mainnet" ELSE "Testnet"] @@ action

signUserSignedAction(action, payloadTypes, primaryType, isMainnet) ==
    [domain |-> userSignedDomain,
     types |-> (primaryType :> payloadTypes),
     primaryType |-> primaryType,
     message |-> stampAction(action, isMainnet)]

Field(n, t) == [name |-> n, type |-> t]

UsdSendTypes ==
    <<Field("hyperliquidChain", "string"), Field("destination", "string"),
      Field("amount", "string"), Field("time", "uint64")>>

signUsdTransferAction(action, isMainnet) ==
    signUserSignedAction(action, UsdSendTypes, "HyperliquidTransaction:UsdSend", isMainnet)

signWithdrawFromBridgeAction(action, isMainnet) ==
    signUserSignedAction(action,
        <<Field("hyperliquidChain", "string"), Field("destination", "string"),
          Field("amount", "string"), Field("time", "uint64")>>,
        "HyperliquidTransaction:Withdraw", isMainnet)

signAgent(action, isMainnet) ==
    signUserSignedAction(action,
        <<Field("hyperliquidChain", "string"), Field("agentAddress", "address"),
          Field("agentName", "string"), Field("nonce", "uint64")>>,
        "HyperliquidTransaction:ApproveAgent", isMainnet)

SpotSendTypes ==
    <<Field("hyperliquidChain", "string"), Field("destination", "string"),
      Field("token", "string"), Field("amount", "string"), Field("time", "uint64")>>

ApproveBuilderFeeTypes ==
    <<Field("hyperliquidChain", "string"), Field("maxFeeRate", "string"),
      Field("builder", "address"), Field("nonce", "uint64")>>

(***************************************************************************)
(* ExchangeAPI (exchange.ts): requests                                     *)
(***************************************************************************)
\* Number.prototype.toString for a value below 1e21 (and not below 1e-6).
numberToString(x) ==
    (IF x.neg /\ ~IsZero(x) THEN <<"-">> ELSE <<>>)
    \o Chars(x.int)
    \o (IF AllZero(x.frac) THEN <<>> ELSE <<".">> \o Chars(StripTrailing(x.frac)))

Dec(int, frac) == Num(FALSE, int, frac \o Zeros(FracDigits - Len(frac)))

\* The symbol metadata source (SymbolConversion.getAssetIndex): the index of
\* a listed symbol, undefined for any other.
symbolSource(symbol) ==
    CASE symbol = "BTC" -> [val |-> 0]
      [] symbol = "ETH" -> [val |-> 4]
      [] OTHER -> UndefinedObj

\* ExchangeType (types/constants).
ExchangeType ==
    [ORDER |-> "order", CANCEL |-> "cancel", CANCEL_BY_CLOID |-> "cancelByCloid",
     MODIFY |-> "modify", BATCH_MODIFY |-> "batchModify",
     UPDATE_LEVERAGE |-> "updateLeverage",
     UPDATE_ISOLATED_MARGIN |-> "updateIsolatedMargin",
     USD_SEND |-> "usdSend", SPOT_SEND |-> "spotSend", WITHDRAW |-> "withdraw",
     APPROVE_AGENT |-> "approveAgent", APPROVE_BUILDER_FEE |-> "approveBuilderFee",
     SPOT_USER |-> "spotUser", SCHEDULE_CANCEL |-> "scheduleCancel",
     VAULT_TRANSFER |-> "vaultTransfer", SET_REFERRER |-> "setReferrer"]

\* CONSTANTS.SDK_CODE, the default referrer code.
SDK_CODE == "SDK_CODE"

LimitGtc == [limit |-> [tif |-> "Gtc"]]

OrderEth ==
    [coin |-> "ETH", is_buy |-> TRUE, limit_px |-> Dec(<<3, 0, 0, 0>>, <<5>>),
     sz |-> Dec(<<1>>, <<2, 5>>), reduce_only |-> FALSE, order_type |-> LimitGtc,
     cloid |-> UndefinedStr]

OrderEthTrigger ==
    [coin |-> "ETH", is_buy |-> FALSE, limit_px |-> Dec(<<2, 9, 0, 0>>, <<>>),
     sz |-> Dec(<<0>>, <<5>>), reduce_only |-> TRUE,
     order_type |-> [trigger |-> [isMarket |-> TRUE,
                                  triggerPx |-> Dec(<<2, 9, 5, 0>>, <<>>),
                                  tpsl |-> "sl"]],
     cloid |-> "0x1234"]

OrderBtc == [OrderEth EXCEPT !.coin = "BTC"]

OrderUnknown == [OrderEth EXCEPT !.coin = "ZZZNOTREAL"]

\* 0.123456789 cannot be written with 8 decimals.
OrderBadPx ==
    [OrderEth EXCEPT !.limit_px = Dec(<<0>>, <<1, 2, 3, 4, 5, 6, 7, 8, 9>>)]

OrderBadType == [OrderEth EXCEPT !.order_type = [stop |-> TRUE]]

OrderSet == {OrderEth, OrderEthTrigger, OrderBtc, OrderUnknown, OrderBadPx, OrderBadType}

CancelSet == {[coin |-> "ETH", o |-> 7], [coin |-> "BTC", o |-> 8],
              [coin |-> "ZZZNOTREAL", o |-> 9]}

\* The largest batch of orders, cancels or modifies in one request.
MaxBatch == 2

Batches(S) == SeqsUpTo(S, MaxBatch) \ {<<>>}

VaultA == AddressOf(5)

BuilderB == [b |-> "0xb0b", f |-> 10]

SymbolsUsed == {"ETH", "BTC", "ZZZNOTREAL"}

Requests ==
    {[op |-> "placeOrder", orders |-> os, vaultAddress |-> v, grouping |-> UndefinedStr,
      builder |-> b] :
        os \in Batches(OrderSet), v \in {Undefined, VaultA}, b \in {UndefinedObj, BuilderB}}
    \cup {[op |-> "cancelOrder", cancels |-> cs] : cs \in Batches(CancelSet)}
    \cup {[op |-> "cancelOrderByCloid", symbol |-> s, cloid |-> "0x1234"] : s \in SymbolsUsed}
    \cup {[op |-> "modifyOrder", oid |-> 7, order |-> o] : o \in OrderSet}
    \cup {[op |-> "batchModifyOrders", modifies |-> ms] :
            ms \in Batches({[oid |-> 7, order |-> o] : o \in OrderSet})}
    \cup {[op |-> "updateLeverage", symbol |-> s, leverageMode |-> "cross", leverage |-> 5] :
            s \in SymbolsUsed}
    \cup {[op |-> "updateIsolatedMargin", symbol |-> s, isBuy |-> TRUE, ntli |-> 100] :
            s \in SymbolsUsed}
    \cup {[op |-> "usdTransfer", destination |-> "0xdest", amount |-> Dec(<<1, 0, 0>>, <<>>)],
          [op |-> "spotTransfer", destination |-> "0xdest", token |-> "PURR",
           amount |-> "1.5"],
          [op |-> "approveBuilderFee", builder |-> "0xb0b", fee |-> "0.001%"],
          [op |-> "approveAgent", agentAddress |-> "0xa9e", agentName |-> "bot"],
          [op |-> "initiateWithdrawal", destination |-> "0xdest",
           amount |-> Dec(<<2, 5>>, <<5>>)],
          [op |-> "transferBetweenSpotAndPerp", usdc |-> 3, toPerp |-> TRUE],
          [op |-> "scheduleCancel", time |-> 5],
          [op |-> "vaultTransfer", vaultAddress |-> VaultA, isDeposit |-> TRUE, usd |-> 10],
          [op |-> "setReferrer", code |-> SDK_CODE]}

SymbolOps == {"placeOrder", "cancelOrder", "cancelOrderByCloid", "modifyOrder",
              "batchModifyOrders", "updateLeverage", "updateIsolatedMargin"}

L1Ops == SymbolOps \cup {"transferBetweenSpotAndPerp", "scheduleCancel",
                         "vaultTransfer", "setReferrer"}

UserSignedOps == {"usdTransfer", "spotTransfer", "approveBuilderFee", "approveAgent",
                  "initiateWithdrawal"}

\* The symbols a request resolves, one per getAssetIndex call it makes.
Symbols(req) ==
    CASE req.op = "placeOrder" -> [i \in 1..Len(req.orders) |-> req.orders[i].coin]
      [] req.op = "cancelOrder" -> [i \in 1..Len(req.cancels) |-> req.cancels[i].coin]
      [] req.op = "batchModifyOrders" ->
            [i \in 1..Len(req.modifies) |-> req.modifies[i].order.coin]
      [] req.op = "modifyOrder" -> <<req.order.coin>>
      [] req.op \in {"cancelOrderByCloid", "updateLeverage", "updateIsolatedMargin"} ->
            <<req.symbol>>
      [] OTHER -> <<>>

(***************************************************************************)
(* ExchangeAPI (exchange.ts): one call                                     *)
(***************************************************************************)
\* Calls made by the user; call 0 is the setReferrer call that the timer of
\* getAssetIndex makes.  The initialize() run that call c starts is run c + 1;
\* run 0 stands for none (null).
MaxCalls == 1

\* The latest value the clock takes.
MaxNow == 1

UserCalls == 1..MaxCalls

CallIds == 0..MaxCalls

RunIds == 1..(MaxCalls + 1)

NoError == [message |-> "none"]

NoIndex == 0 - 1

NoWire == [none |-> TRUE]

NoAction == [type |-> "none"]

\* One per-symbol promise of a call: called tells whether getAssetIndex was
\* invoked for it.
PendingItem ==
    [st |-> "pending", called |-> TRUE, idx |-> NoIndex, wire |-> NoWire, err |-> NoError]

IdleCall ==
    [pc |-> "idle", req |-> [op |-> "none"], run |-> 0, cache |-> {}, items |-> <<>>,
     action |-> NoAction, nonce |-> NoIndex,
     hashed |-> <<>>, signed |-> <<>>, sent |-> <<>>, errs |-> {}, err |-> NoError]

\* A call rejects with error e (the catch blocks rethrow it unchanged).
Rejected(call, e) == [call EXCEPT !.pc = "rejected", !.err = e, !.errs = @ \cup {e}]


\* getAssetIndex with a default in place of the unknown-asset error.
getAssetIndexOrZero(symbol, index) ==
    IF index = UndefinedObj THEN Return(0) ELSE Return(index.val)

\* getAssetIndex (exchange.ts 68-80), the value it returns or the error it
\* throws once the symbol source has answered with index.
getAssetIndex(symbol, index) ==
    IF index = UndefinedObj
    THEN [throw |-> [message |-> "Unknown asset", symbol |-> symbol]]
    ELSE Return(index.val)

\* modifyOrder's action, given the wire order.
ModifyAction(req, w) ==
    IF Threw(w) THEN w
    ELSE Return([type |-> ExchangeType.MODIFY, oid |-> req.oid, order |-> w.val])

\* batchModifyOrders' action, given the wire orders: the first conversion
\* that throws ends the map.
BatchModifyAction(req, ws) ==
    IF \E i \in 1..Len(ws) : Threw(ws[i])
    THEN ws[CHOOSE i \in 1..Len(ws) : Threw(ws[i]) /\ \A j \in 1..(i - 1) : ~Threw(ws[j])]
    ELSE Return([type |-> ExchangeType.BATCH_MODIFY,
                 modifies |-> [i \in 1..Len(ws) |->
                                 [oid |-> req.modifies[i].oid, order |-> ws[i].val]]])

Chain(isMainnet) == IF isMainnet THEN "Mainnet" ELSE "Testnet"

\* The action an operation builds once its symbols are resolved
\* (idx[i]: the index of Symbols(req)[i]; wires: placeOrder's wire orders).
BuildAction(req, idx, wires, t, isMainnet) ==
    CASE req.op = "placeOrder" ->
            Return(orderWireToAction(wires,
                       IF req.grouping = UndefinedStr THEN "na" ELSE req.grouping,
                       req.builder))
      [] req.op = "cancelOrder" ->
            Return([type |-> ExchangeType.CANCEL,
                    cancels |-> [i \in 1..Len(req.cancels) |->
                                    [a |-> idx[i], o |-> req.cancels[i].o]]])
      [] req.op = "cancelOrderByCloid" ->
            Return([type |-> ExchangeType.CANCEL_BY_CLOID,
                    cancels |-> <<[asset |-> idx[1], cloid |-> req.cloid]>>])
      [] req.op = "modifyOrder" ->
            ModifyAction(req, orderToWire(req.order, idx[1]))
      [] req.op = "batchModifyOrders" ->
            BatchModifyAction(req,
                [i \in 1..Len(req.modifies) |->
                    orderToWire(req.modifies[i].order, idx[i])])
      [] req.op = "updateLeverage" ->
            Return([type |-> ExchangeType.UPDATE_LEVERAGE, asset |-> idx[1],
                    isCross |-> (req.leverageMode = "cross"), leverage |-> req.leverage])
      [] req.op = "updateIsolatedMargin" ->
            Return([type |-> ExchangeType.UPDATE_ISOLATED_MARGIN, asset |-> idx[1],
                    isBuy |-> req.isBuy, ntli |-> req.ntli])
      [] req.op = "usdTransfer" ->
            Return([type |-> ExchangeType.USD_SEND, hyperliquidChain |-> Chain(isMainnet),
                    signatureChainId |-> "0xa4b1", destination |-> req.destination,
                    amount |-> numberToString(req.amount), time |-> t])
      [] req.op = "spotTransfer" ->
            Return([type |-> ExchangeType.SPOT_SEND, hyperliquidChain |-> Chain(isMainnet),
                    signatureChainId |-> "0xa4b1", destination |-> req.destination,
                    token |-> req.token, amount |-> req.amount, time |-> t])
      [] req.op = "approveBuilderFee" ->
            Return([type |-> ExchangeType.APPROVE_BUILDER_FEE,
                    hyperliquidChain |-> Chain(isMainnet),
                    signatureChainId |-> "0xa4b1", maxFeeRate |-> req.fee,
                    builder |-> req.builder, nonce |-> t])
      [] req.op = "approveAgent" ->
            Return([type |-> ExchangeType.APPROVE_AGENT,
                    hyperliquidChain |-> Chain(isMainnet),
                    agentAddress |-> req.agentAddress, agentName |-> req.agentName,
                    nonce |-> t])
      [] req.op = "initiateWithdrawal" ->
            Return([type |-> ExchangeType.WITHDRAW, hyperliquidChain |-> Chain(isMainnet),
                    signatureChainId |-> "0xa4b1", destination |-> req.destination,
                    amount |-> numberToString(req.amount), time |-> t])
      [] req.op = "transferBetweenSpotAndPerp" ->
            Return([type |-> ExchangeType.SPOT_USER,
                    classTransfer |-> [usdc |-> req.usdc * 1000000, toPerp |-> req.toPerp]])
      [] req.op = "scheduleCancel" ->
            Return([type |-> ExchangeType.SCHEDULE_CANCEL, time |-> req.time])
      [] req.op = "vaultTransfer" ->
            Return([type |-> ExchangeType.VAULT_TRANSFER, vaultAddress |-> req.vaultAddress,
                    isDeposit |-> req.isDeposit, usd |-> req.usd])
      [] req.op = "setReferrer" ->
            Return([type |-> ExchangeType.SET_REFERRER, code |-> req.code])

\* The vault address an operation passes to signL1Action: placeOrder's
\* destructured vaultAddress (null by default), null in every other one.
ActivePool(req) ==
    IF req.op = "placeOrder" /\ req.vaultAddress # Undefined THEN req.vaultAddress ELSE Null

\* The typed data an operation has signed.
SignData(req, action, nonce, isMainnet) ==
    CASE req.op \in L1Ops -> signL1Action(action, ActivePool(req), nonce, isMainnet)
      [] req.op = "usdTransfer" -> signUsdTransferAction(action, isMainnet)
      [] req.op = "spotTransfer" ->
            signUserSignedAction(action, SpotSendTypes,
                                 "HyperliquidTransaction:SpotSend", isMainnet)
      [] req.op = "approveBuilderFee" ->
            signUserSignedAction(action, ApproveBuilderFeeTypes,
                                 "HyperliquidTransaction:ApproveBuilderFee", isMainnet)
      [] req.op = "approveAgent" -> signAgent(action, isMainnet)
      [] req.op = "initiateWithdrawal" -> signWithdrawFromBridgeAction(action, isMainnet)

\* A variant whose payload carries a clock reading taken after the signing.
PayloadLaterNonce(req, action, nonce, signature) ==
    IF req.op = "placeOrder"
    THEN [action |-> action, nonce |-> nonce + 1, signature |-> signature,
          vaultAddress |-> ActivePool(req)]
    ELSE [action |-> action, nonce |-> nonce + 1, signature |-> signature]

\* What an operation hands to httpApi.makeRequest.
Payload(req, action, nonce, signature) ==
    CASE req.op = "placeOrder" ->
            [action |-> action, nonce |-> nonce, signature |-> signature,
             vaultAddress |-> ActivePool(req)]
      [] req.op \in L1Ops \ {"placeOrder"} ->
            [action |-> action, nonce |-> nonce, signature |-> signature]
      [] req.op \in {"usdTransfer", "spotTransfer", "initiateWithdrawal"} ->
            [action |-> action, nonce |-> action.time, signature |-> signature]
      [] req.op \in {"approveBuilderFee", "approveAgent"} ->
            [action |-> action, nonce |-> action.nonce, signature |-> signature]

\* signInner up to its await (index.ts 289-298): it throws when the account
\* cannot sign typed data, else account.signTypedData is called with data.
signInner(call, data, canSign) ==
    IF ~canSign THEN Rejected(call, [message |-> "Account does not support signTypedData"])
    ELSE [call EXCEPT !.pc = "signing", !.signed = Append(@, data)]

\* The call once the action is built and the typed data is prepared: the
\* action is hashed (L1) or stamped in place (user-signed), and signInner is
\* entered.
SignWith(call, action, data, t, canSign) ==
    signInner([call EXCEPT
                 !.action = IF call.req.op \in L1Ops THEN action ELSE data.message,
                 !.nonce = t,
                 !.hashed = IF call.req.op \in L1Ops
                            THEN Append(@, [action |-> action,
                                            vaultAddress |-> ActivePool(call.req),
                                            nonce |-> t])
                            ELSE @],
              data, canSign)

\* From the built action to the await of the signature; the nonce is read
\* from the clock (L1) or is the action's own time (user-signed).
BeginSign(call, built, t, isMainnet, canSign) ==
    IF Threw(built) THEN Rejected(call, built.throw)
    ELSE SignWith(call, built.val, SignData(call.req, built.val, t, isMainnet), t, canSign)

\* A variant that goes on as soon as one resolution is back.
SomeResolved(call) == \E i \in 1..Len(call.items) : call.items[i].st = "ok"

\* Promise.all over the per-symbol promises: every one has resolved.
AllResolved(call) == \A i \in 1..Len(call.items) : call.items[i].st = "ok"

(***************************************************************************)
(* Hyperliquid.connect / initialize (index.ts 50-79) and the steps of an   *)
(* ExchangeAPI call                                                        *)
(***************************************************************************)
Init ==
    /\ fn = "none" /\ arg = <<>> /\ ret = <<>>
    /\ IS_MAINNET \in BOOLEAN
    /\ turnkeyAccount \in BOOLEAN
    /\ hasSignTypedData \in BOOLEAN
    \* an account made by privateKeyToAccount always has signTypedData
    /\ (~turnkeyAccount => hasSignTypedData)
    /\ _i = 0 /\ timers = 0 /\ scheduled = 0
    /\ _initialized = FALSE /\ _initializing = 0
    /\ runs = [r \in RunIds |-> "none"]
    /\ now = 0
    /\ calls = [c \in CallIds |-> IdleCall]
    /\ terminated = FALSE

\* A variant of connect() that starts initialize() whenever the instance is
\* not initialized, whether or not a run is in flight.
EnterUncoalesced(c, req) ==
    /\ ~terminated
    /\ calls[c].pc = "idle"
    /\ IF _initialized
       THEN /\ calls' = [calls EXCEPT ![c] = [IdleCall EXCEPT !.pc = "init", !.req = req]]
            /\ UNCHANGED <<_initializing, runs>>
       ELSE /\ runs[c + 1] = "none"
            /\ runs' = [runs EXCEPT ![c + 1] = "symbols"]
            /\ _initializing' = c + 1
            /\ calls' = [calls EXCEPT ![c] =
                            [IdleCall EXCEPT !.pc = "init", !.req = req, !.run = c + 1]]

\* An operation is called: its first statement awaits ensureInitialized(),
\* that is connect(), which starts initialize() unless a run is in flight
\* or the instance is initialized, and awaits the run in flight.
Enter(c, req) ==
    /\ ~terminated
    /\ calls[c].pc = "idle"
    /\ IF _initialized
       THEN /\ calls' = [calls EXCEPT ![c] = [IdleCall EXCEPT !.pc = "init", !.req = req]]
            /\ UNCHANGED <<_initializing, runs>>
       ELSE IF _initializing = 0
       THEN /\ runs[c + 1] = "none"
            /\ runs' = [runs EXCEPT ![c + 1] = "symbols"]
            /\ _initializing' = c + 1
            /\ calls' = [calls EXCEPT ![c] =
                            [IdleCall EXCEPT !.pc = "init", !.req = req, !.run = c + 1]]
       ELSE /\ calls' = [calls EXCEPT ![c] =
                            [IdleCall EXCEPT !.pc = "init", !.req = req,
                                             !.run = _initializing]]
            /\ UNCHANGED <<_initializing, runs>>

Invoke(c, req) ==
    /\ c \in DOMAIN calls \ {0}
    /\ \A d \in DOMAIN calls \ {0} : d < c => calls[d].pc # "idle"
    /\ Enter(c, req)
    /\ UNCHANGED <<fn, arg, ret, terminated, IS_MAINNET, turnkeyAccount,
                   hasSignTypedData, _i, timers, scheduled, _initialized, now>>

\* The timer of getAssetIndex runs: setReferrer() is called.
TimerFires ==
    /\ timers > 0
    /\ timers' = timers - 1
    /\ Enter(0, [op |-> "setReferrer", code |-> SDK_CODE])
    /\ UNCHANGED <<fn, arg, ret, terminated, IS_MAINNET, turnkeyAccount,
                   hasSignTypedData, _i, scheduled, _initialized, now>>

\* symbolConversion.initialize() settles: on success ws.connect() is called.
SymbolsInitialized(r, ok) ==
    /\ ~terminated
    /\ runs[r] = "symbols"
    /\ IF ok
       THEN /\ runs' = [runs EXCEPT ![r] = "ws"]
            /\ UNCHANGED _initializing
       ELSE /\ runs' = [runs EXCEPT ![r] = "failed"]
            /\ _initializing' = 0
    /\ UNCHANGED <<fn, arg, ret, terminated, IS_MAINNET, turnkeyAccount,
                   hasSignTypedData, _i, timers, scheduled, _initialized, now,
                   calls>>

\* A variant whose catch block does not reset _initializing.
WsConnectedKeepsPromise(r, ok) ==
    /\ ~terminated
    /\ runs[r] = "ws"
    /\ runs' = [runs EXCEPT ![r] = IF ok THEN "ok" ELSE "failed"]
    /\ _initialized' = (IF ok THEN TRUE ELSE _initialized)
    /\ _initializing' = (IF ok THEN 0 ELSE _initializing)
    /\ UNCHANGED <<fn, arg, ret, terminated, IS_MAINNET, turnkeyAccount,
                   hasSignTypedData, _i, timers, scheduled, now, calls>>

\* ws.connect() settles.
WsConnected(r, ok) ==
    /\ ~terminated
    /\ runs[r] = "ws"
    /\ runs' = [runs EXCEPT ![r] = IF ok THEN "ok" ELSE "failed"]
    /\ _initialized' = (IF ok THEN TRUE ELSE _initialized)
    /\ _initializing' = 0
    /\ UNCHANGED <<fn, arg, ret, terminated, IS_MAINNET, turnkeyAccount,
                   hasSignTypedData, _i, timers, scheduled, now, calls>>

\* The awaited run failed: the operation rejects with the run's error.
InitFailed(c) ==
    /\ ~terminated
    /\ calls[c].pc = "init"
    /\ calls[c].run # 0
    /\ runs[calls[c].run] = "failed"
    /\ calls' = [calls EXCEPT ![c] = Rejected(@, [message |-> "initialize failed"])]
    /\ UNCHANGED <<fn, arg, ret, terminated, IS_MAINNET, turnkeyAccount,
                   hasSignTypedData, _i, timers, scheduled, _initialized,
                   _initializing, runs, now>>

\* The item of a per-symbol promise once the index (got) and, in placeOrder,
\* the wire order are there.
ResolvedItem(item, got, wire) ==
    IF Threw(got) THEN [item EXCEPT !.st = "failed", !.err = got.throw]
    ELSE IF Threw(wire) THEN [item EXCEPT !.st = "failed", !.idx = got.val,
                                          !.err = wire.throw]
    ELSE [item EXCEPT !.st = "ok", !.idx = got.val, !.wire = wire.val]

\* What the callback makes of the index: placeOrder's encodes the order.
ResolutionWire(req, i, got) ==
    IF req.op = "placeOrder" /\ ~Threw(got)
    THEN orderToWire(req.orders[i], got.val)
    ELSE Return(NoWire)

\* The map callback of placeOrder for an order whose coin is in
\* assetIndexCache (entry e): no resolution is started.
CachedItem(req, i, e) ==
    ResolvedItem([PendingItem EXCEPT !.called = FALSE], Return(e[2]),
                 ResolutionWire(req, i, Return(e[2])))

\* The synchronous part of the map over the orders, cancels or modifies.
StartedItems(call, syms) ==
    [i \in 1..Len(syms) |->
        IF call.req.op = "placeOrder" /\ \E e \in call.cache : e[1] = syms[i]
        THEN CachedItem(call.req, i, CHOOSE e \in call.cache : e[1] = syms[i])
        ELSE PendingItem]

\* The call awaiting Promise.all over items.
Awaiting(call, items) ==
    IF \E i \in 1..Len(items) : items[i].st = "failed"
    THEN Rejected([call EXCEPT !.items = items],
                  items[CHOOSE i \in 1..Len(items) :
                            /\ items[i].st = "failed"
                            /\ \A j \in 1..(i - 1) : items[j].st # "failed"].err)
    ELSE [call EXCEPT !.pc = "resolving", !.items = items]

\* ensureInitialized() has returned.  An operation on symbols starts one
\* resolution per order, cancel or modify (placeOrder: per order whose coin
\* is not in assetIndexCache, which nothing has filled yet) and awaits them;
\* any other operation builds its action and starts signing.
Begin(c, t) ==
    /\ ~terminated
    /\ calls[c].pc = "init"
    /\ (IF calls[c].run = 0 THEN TRUE ELSE runs[calls[c].run] = "ok")
    /\ IF calls[c].req.op \in SymbolOps
       THEN /\ t = now
            /\ calls' = [calls EXCEPT ![c] =
                            Awaiting(@, StartedItems(@, Symbols(@.req)))]
       ELSE /\ t \in now..MaxNow
            /\ calls' = [calls EXCEPT ![c] =
                  BeginSign(@, BuildAction(@.req, <<>>, <<>>, t, IS_MAINNET),
                            t, IS_MAINNET, hasSignTypedData)]
    /\ now' = t
    /\ UNCHANGED <<fn, arg, ret, terminated, IS_MAINNET, turnkeyAccount,
                   hasSignTypedData, _i, timers, scheduled, _initialized,
                   _initializing, runs>>

\* The call once resolution i has settled into item: placeOrder's callback
\* stores the index in the cache; a failure rejects the call if it still
\* awaits its resolutions.
AfterResolution(call, i, sym, got, item) ==
    [call EXCEPT
        !.items[i] = item,
        !.cache = IF call.req.op = "placeOrder" /\ ~Threw(got)
                  THEN @ \cup {<<sym, got.val>>} ELSE @,
        !.errs = IF item.st = "failed" THEN @ \cup {item.err} ELSE @,
        !.pc = IF item.st = "failed" /\ call.pc = "resolving" THEN "rejected" ELSE @,
        !.err = IF item.st = "failed" /\ call.pc = "resolving" THEN item.err ELSE @]

\* getAssetIndex after its await, the symbol source having answered: it
\* throws for an unknown symbol, else sets _i and schedules the referrer
\* timer on the first success (unless the account is a turnkey one).
Resolved(c, i, sym, got) ==
    /\ calls' = [calls EXCEPT ![c] =
          AfterResolution(@, i, sym, got,
                          ResolvedItem(@.items[i], got, ResolutionWire(@.req, i, got)))]
    /\ IF ~Threw(got) /\ _i = 0
       THEN /\ _i' = 1
            /\ timers' = (IF turnkeyAccount THEN timers ELSE timers + 1)
            /\ scheduled' = (IF turnkeyAccount THEN scheduled ELSE scheduled + 1)
       ELSE UNCHANGED <<_i, timers, scheduled>>

Resolution(c, i, sym) == Resolved(c, i, sym, getAssetIndex(sym, symbolSource(sym)))

\* The symbol source answers resolution i of call c.
ResolveDone(c, i) ==
    /\ ~terminated
    /\ i \in 1..Len(calls[c].items)
    /\ calls[c].items[i].st = "pending"
    /\ Resolution(c, i, Symbols(calls[c].req)[i])
    /\ UNCHANGED <<fn, arg, ret, terminated, IS_MAINNET, turnkeyAccount,
                   hasSignTypedData, _initialized, _initializing, runs, now>>

\* Every resolution of the call is back: the action is built, the nonce is
\* read from the clock, and signL1Action runs up to its await.
Proceed(c, t) ==
    /\ ~terminated
    /\ calls[c].pc = "resolving"
    /\ AllResolved(calls[c])
    /\ t \in now..MaxNow
    /\ now' = t
    /\ calls' = [calls EXCEPT ![c] =
          BeginSign(@, BuildAction(@.req,
                                   [i \in 1..Len(calls[c].items) |-> calls[c].items[i].idx],
                                   [i \in 1..Len(calls[c].items) |-> calls[c].items[i].wire],
                                   t, IS_MAINNET),
                    t, IS_MAINNET, hasSignTypedData)]
    /\ UNCHANGED <<fn, arg, ret, terminated, IS_MAINNET, turnkeyAccount,
                   hasSignTypedData, _i, timers, scheduled, _initialized,
                   _initializing, runs>>

\* The raw signatures account.signTypedData may return: 65 bytes, and (from a
\* signer that misbehaves) 64.
RawSignatures == {RawSig(130, 3), RawSig(128, 7)}

\* account.signTypedData resolves: the signature is split and the payload is
\* handed to httpApi.makeRequest.
Signed(c, raw) ==
    /\ ~terminated
    /\ calls[c].pc = "signing"
    /\ raw \in RawSignatures
    /\ calls' = [calls EXCEPT ![c] =
          [@ EXCEPT !.pc = "sending",
                    !.sent = Append(@, Payload(calls[c].req, calls[c].action,
                                               calls[c].nonce, splitSig(raw)))]]
    /\ UNCHANGED <<fn, arg, ret, terminated, IS_MAINNET, turnkeyAccount,
                   hasSignTypedData, _i, timers, scheduled, _initialized,
                   _initializing, runs, now>>

\* A variant that asks the account for the signature a second time when the
\* first request is rejected.
SignFailedRetry(c) ==
    /\ ~terminated
    /\ calls[c].pc = "signing"
    /\ calls' = [calls EXCEPT ![c] =
          IF Len(@.signed) < 2 THEN [@ EXCEPT !.signed = Append(@, @[1])]
          ELSE Rejected(@, [message |-> "signTypedData rejected"])]
    /\ UNCHANGED <<fn, arg, ret, terminated, IS_MAINNET, turnkeyAccount,
                   hasSignTypedData, _i, timers, scheduled, _initialized,
                   _initializing, runs, now>>

\* account.signTypedData rejects.
SignFailed(c) ==
    /\ ~terminated
    /\ calls[c].pc = "signing"
    /\ calls' = [calls EXCEPT ![c] = Rejected(@, [message |-> "signTypedData rejected"])]
    /\ UNCHANGED <<fn, arg, ret, terminated, IS_MAINNET, turnkeyAccount,
                   hasSignTypedData, _i, timers, scheduled, _initialized,
                   _initializing, runs, now>>

\* httpApi.makeRequest settles: the operation returns its promise.
Sent(c, ok) ==
    /\ ~terminated
    /\ calls[c].pc = "sending"
    /\ calls' = [calls EXCEPT ![c] =
          IF ok THEN [@ EXCEPT !.pc = "done"]
          ELSE Rejected(@, [message |-> "makeRequest rejected"])]
    /\ UNCHANGED <<fn, arg, ret, terminated, IS_MAINNET, turnkeyAccount,
                   hasSignTypedData, _i, timers, scheduled, _initialized,
                   _initializing, runs, now>>

\* The promise of the background setReferrer() call has rejected.  The timer
\* callback neither awaits nor catches it (its try block has returned by
\* then), so the rejection is unhandled: a host that only reports it takes
\* no step here; Node, by default since version 15, ends the process, and
\* the calls in flight never settle.
UnhandledRejection ==
    /\ ~terminated
    /\ calls[0].pc = "rejected"
    /\ terminated' = TRUE
    /\ UNCHANGED <<fn, arg, ret, IS_MAINNET, turnkeyAccount, hasSignTypedData, _i,
                   timers, scheduled, _initialized, _initializing, runs, now, calls>>

Next ==
    \/ \E c \in UserCalls, req \in Requests : Invoke(c, req)
    \/ TimerFires
    \/ \E r \in RunIds, ok \in BOOLEAN : SymbolsInitialized(r, ok)
    \/ \E r \in RunIds, ok \in BOOLEAN : WsConnected(r, ok)
    \/ \E c \in CallIds : InitFailed(c)
    \/ \E c \in CallIds, t \in 0..MaxNow : Begin(c, t)
    \/ \E c \in CallIds, i \in 1..MaxBatch : ResolveDone(c, i)
    \/ \E c \in CallIds, t \in 0..MaxNow : Proceed(c, t)
    \/ \E c \in CallIds, raw \in RawSignatures : Signed(c, raw)
    \/ \E c \in CallIds : SignFailed(c)
    \/ \E c \in CallIds, ok \in BOOLEAN : Sent(c, ok)
    \/ UnhandledRejection

Spec == Init /\ [][Next]_vars

(***************************************************************************)
(* Specification SpecConc: several operations called on one instance       *)
(* without waiting for one another                                         *)
(***************************************************************************)
\* Calls made by the user that may be in flight together.
MaxConc == 2

ConcCalls == 0..MaxConc

ConcRuns == 1..(MaxConc + 1)

\* An order batch on two symbols for a vault, a cancel on a symbol that the
\* metadata does not list, and a user-signed transfer.
ConcRequests ==
    {[op |-> "placeOrder", orders |-> <<OrderEth, OrderBtc>>, vaultAddress |-> VaultA,
      grouping |-> UndefinedStr, builder |-> UndefinedObj],
     [op |-> "cancelOrderByCloid", symbol |-> "ZZZNOTREAL", cloid |-> "0x1234"],
     [op |-> "usdTransfer", destination |-> "0xdest", amount |-> Dec(<<1, 0, 0>>, <<>>)]}

InitConc ==
    /\ fn = "none" /\ arg = <<>> /\ ret = <<>>
    /\ IS_MAINNET \in BOOLEAN
    /\ turnkeyAccount \in BOOLEAN
    /\ hasSignTypedData = TRUE
    /\ _i = 0 /\ timers = 0 /\ scheduled = 0
    /\ _initialized = FALSE /\ _initializing = 0
    /\ runs = [r \in ConcRuns |-> "none"]
    /\ now = 0
    /\ calls = [c \in ConcCalls |-> IdleCall]
    /\ terminated = FALSE

NextConc ==
    \/ \E c \in ConcCalls, req \in ConcRequests : Invoke(c, req)
    \/ TimerFires
    \/ \E r \in ConcRuns, ok \in BOOLEAN : SymbolsInitialized(r, ok)
    \/ \E r \in ConcRuns, ok \in BOOLEAN : WsConnected(r, ok)
    \/ \E c \in ConcCalls : InitFailed(c)
    \/ \E c \in ConcCalls, t \in 0..MaxNow : Begin(c, t)
    \/ \E c \in ConcCalls, i \in 1..MaxBatch : ResolveDone(c, i)
    \/ \E c \in ConcCalls, t \in 0..MaxNow : Proceed(c, t)
    \/ \E c \in ConcCalls, raw \in RawSignatures : Signed(c, raw)
    \/ \E c \in ConcCalls : SignFailed(c)
    \/ \E c \in ConcCalls, ok \in BOOLEAN : Sent(c, ok)
    \/ UnhandledRejection

SpecConc == InitConc /\ [][NextConc]_vars

(***************************************************************************)
(* Properties                                                              *)
(***************************************************************************)
\* Big-endian value of a byte string (Horner).
RECURSIVE BytesValue(_, _, _)
BytesValue(bs, i, acc) ==
    IF i > Len(bs) THEN acc ELSE BytesValue(bs, i + 1, 256 * acc + bs[i])

\* C5: the buffer that actionHash hashes is the serialized action at offset
\* 0, then the nonce as 8 big-endian bytes, then a marker byte (0 without a
\* vault address, 1 with one), then, only with a vault address, its 20 raw
\* bytes; its length is len(serialized) + 9 or len(serialized) + 29.
C5_HashLayout ==
    fn = "actionHash" =>
        LET ser == arg.msgPackBytes
            n == Len(ser)
            v == arg.vaultAddress
        IN  /\ Len(ret) = n + (IF v = Null THEN 9 ELSE 29)
            /\ SubSeq(ret, 1, n) = ser
            /\ \A i \in (n + 1)..(n + 8) : ret[i] \in 0..255
            \* the nonces of the model are below 2^31: the four high bytes
            \* are 0 and the four low bytes spell the nonce
            /\ \A i \in (n + 1)..(n + 4) : ret[i] = 0
            /\ BytesValue(SubSeq(ret, n + 5, n + 8), 1, 0) = arg.nonce
            /\ ret[n + 9] = (IF v = Null THEN 0 ELSE 1)
            /\ v # Null =>
                 \A i \in 1..20 :
                    ret[n + 9 + i] = 16 * HexVal(v[2 * i + 1]) + HexVal(v[2 * i + 2])

\* C5 witness: a buffer was built for a nonempty serialization, a nonce that
\* fills more than one byte and a vault address.
C5_Witness ==
    /\ fn = "actionHash"
    /\ Len(arg.msgPackBytes) = MaxSerLen
    /\ arg.nonce = 16777218
    /\ arg.vaultAddress # Null
    /\ Len(ret) = MaxSerLen + 29

\* C6: splitting a raw signature that is not exactly 65 bytes (0x and 130
\* hex digits) fails with a malformed-signature error; only a 65-byte input
\* yields an {r, s, v} result.
C6_MalformedRejected ==
    (fn = "splitSig" /\ Len(arg) # 132) => Threw(ret)

\* Decimal value of a wire string equals x (negative zero equals zero).
SameValue(a, b) ==
    /\ a.int = b.int
    /\ a.frac = b.frac
    /\ (a.neg = b.neg \/ IsZero(a))

AtMost8Decimals(x) == AllZero(SubSeq(x.frac, WireDecimals + 1, FracDigits))

HasChar(cs, c) == \E i \in 1..Len(cs) : cs[i] = c

Canonical(cs) ==
    /\ Len(cs) > 0
    /\ cs[Len(cs)] # "."
    /\ HasChar(cs, ".") => cs[Len(cs)] # "0"
    /\ ~HasChar(cs, "e")
    /\ cs # <<"-", "0">>

\* C7: for every decimal x with at most 8 fractional digits, floatToWire(x)
\* returns a string that parses back to x, has no trailing fractional zeros
\* and no trailing decimal point, uses no exponent notation, and is "0"
\* (never "-0") when x is negative zero.
C7_RoundTrip ==
    (fn = "floatToWire" /\ AtMost8Decimals(arg)) =>
        /\ ~Threw(ret)
        /\ SameValue(parseFloat(ret.val), arg)
        /\ Canonical(ret.val)
        /\ IsZero(arg) => ret.val = <<"0">>

\* The same statement for |x| < 1e21, where toFixed writes plain digits.
C7_RoundTripBelow1e21 ==
    (fn = "floatToWire" /\ AtMost8Decimals(arg) /\ Len(arg.int) < 22) =>
        /\ ~Threw(ret)
        /\ SameValue(parseFloat(ret.val), arg)
        /\ Canonical(ret.val)
        /\ IsZero(arg) => ret.val = <<"0">>

\* The symbols of a request that the metadata does not list.
UnknownSymbols(req) ==
    {Symbols(req)[i] : i \in {j \in 1..Len(Symbols(req)) :
                                 symbolSource(Symbols(req)[j]) = UndefinedObj}}

\* How many times getAssetIndex was invoked for symbol s in a call.
Invocations(call, s) ==
    Cardinality({i \in 1..Len(call.items) :
                    call.items[i].called /\ Symbols(call.req)[i] = s})

\* C1: for one batched call of placeOrder or batchModifyOrders, getAssetIndex
\* is invoked exactly once per distinct symbol of the batch, however often
\* the symbol occurs in it.
C1_OncePerSymbol ==
    \A c \in CallIds :
        (calls[c].req.op \in {"placeOrder", "batchModifyOrders"} /\ calls[c].items # <<>>) =>
            \A i \in 1..Len(calls[c].items) :
                Invocations(calls[c], Symbols(calls[c].req)[i]) = 1

\* C2: resolving a symbol that the metadata does not list always fails with
\* the unknown-asset error and never yields an index (such as 0), whatever
\* was resolved before; no action of such a call is hashed or sent.
C2_UnknownAssetFails ==
    \A c \in CallIds :
        /\ \A i \in 1..Len(calls[c].items) :
              (symbolSource(Symbols(calls[c].req)[i]) = UndefinedObj
               /\ calls[c].items[i].st # "pending") =>
                  /\ calls[c].items[i].st = "failed"
                  /\ calls[c].items[i].err =
                        [message |-> "Unknown asset", symbol |-> Symbols(calls[c].req)[i]]
                  /\ calls[c].items[i].idx = NoIndex
                  /\ calls[c].items[i].wire = NoWire
        /\ (calls[c].req.op \in SymbolOps /\ UnknownSymbols(calls[c].req) # {}) =>
              calls[c].hashed = <<>> /\ calls[c].sent = <<>>

\* C2 witness: in a batch, a listed symbol was resolved and then the unlisted
\* one was, and failed.
C2_Witness ==
    /\ calls[1].req.op = "placeOrder"
    /\ Len(calls[1].items) = 2
    /\ calls[1].req.orders[1].coin = "ETH"
    /\ calls[1].req.orders[2].coin = "ZZZNOTREAL"
    /\ calls[1].items[1].st = "ok"
    /\ calls[1].items[2].st = "failed"
    /\ calls[1].pc = "rejected"

\* C3 as stated: after usdTransfer on testnet the action signed and sent
\* carries hyperliquidChain "Testnet" and signatureChainId "0xa4b1", and was
\* signed under HyperliquidTransaction:UsdSend with a schema of five fields.
C3_AsStated ==
    \A c \in CallIds :
        (calls[c].req.op = "usdTransfer" /\ ~IS_MAINNET /\ calls[c].sent # <<>>) =>
            /\ calls[c].sent[1].action.hyperliquidChain = "Testnet"
            /\ calls[c].sent[1].action.signatureChainId = "0xa4b1"
            /\ calls[c].signed[1].message = calls[c].sent[1].action
            /\ calls[c].signed[1].primaryType = "HyperliquidTransaction:UsdSend"
            /\ DOMAIN calls[c].signed[1].types = {"HyperliquidTransaction:UsdSend"}
            /\ Len(calls[c].signed[1].types["HyperliquidTransaction:UsdSend"]) = 5

\* C3 amended: after usdTransfer on testnet the action signed and sent
\* carries hyperliquidChain "Testnet" and signatureChainId "0x66eee" (the
\* signing domain's chainId 421614), and was signed under
\* HyperliquidTransaction:UsdSend with the schema of four fields
\* hyperliquidChain, destination, amount, time, in this order.
C3_UsdSendSigned ==
    \A c \in CallIds :
        (calls[c].req.op = "usdTransfer" /\ ~IS_MAINNET /\ calls[c].sent # <<>>) =>
            /\ calls[c].sent[1].action.hyperliquidChain = "Testnet"
            /\ calls[c].sent[1].action.signatureChainId = "0x66eee"
            /\ calls[c].sent[1].nonce = calls[c].sent[1].action.time
            /\ calls[c].signed[1].message = calls[c].sent[1].action
            /\ calls[c].signed[1].domain.chainId = 421614
            /\ calls[c].signed[1].primaryType = "HyperliquidTransaction:UsdSend"
            /\ DOMAIN calls[c].signed[1].types = {"HyperliquidTransaction:UsdSend"}
            /\ calls[c].signed[1].types["HyperliquidTransaction:UsdSend"] =
                  <<[name |-> "hyperliquidChain", type |-> "string"],
                    [name |-> "destination", type |-> "string"],
                    [name |-> "amount", type |-> "string"],
                    [name |-> "time", type |-> "uint64"]>>

\* C3 witness: a usdTransfer on testnet was signed and handed to the transport.
C3_Witness ==
    /\ ~IS_MAINNET
    /\ calls[1].req.op = "usdTransfer"
    /\ calls[1].pc = "done"
    /\ Len(calls[1].sent) = 1
    /\ calls[1].sent[1].action.destination = "0xdest"

\* The operations of the two signing modes, by the action they send.
L1Operations ==
    {"placeOrder", "cancelOrder", "cancelOrderByCloid", "modifyOrder",
     "batchModifyOrders", "updateLeverage", "updateIsolatedMargin", "vaultTransfer",
     "scheduleCancel", "setReferrer", "transferBetweenSpotAndPerp"}

UserSignedOperations ==
    {"usdTransfer", "spotTransfer", "initiateWithdrawal", "approveAgent",
     "approveBuilderFee"}

\* C4: every L1 action is signed only as a phantom agent {source,
\* connectionId = action hash} under the domain "Exchange" / 1337 with
\* primary type Agent, and every user-signed action only over its own fields
\* under the domain "HyperliquidSignTransaction"; each call signs once, and
\* what it sends is what it signed.
C4_ModesNotInterchanged ==
    \A c \in CallIds :
        /\ Len(calls[c].signed) <= 1
        /\ Len(calls[c].sent) <= Len(calls[c].signed)
        /\ \A k \in 1..Len(calls[c].signed) :
              /\ calls[c].req.op \in L1Operations \cup UserSignedOperations
              /\ calls[c].req.op \in L1Operations =>
                    /\ calls[c].signed[k].domain.name = "Exchange"
                    /\ calls[c].signed[k].domain.chainId = 1337
                    /\ calls[c].signed[k].primaryType = "Agent"
                    /\ DOMAIN calls[c].signed[k].types = {"Agent"}
                    /\ DOMAIN calls[c].signed[k].message = {"source", "connectionId"}
                    /\ calls[c].signed[k].message.source = (IF IS_MAINNET THEN "a" ELSE "b")
                    /\ calls[c].signed[k].message.connectionId =
                          keccak256(actionHashData(<<calls[c].action>>,
                                                   calls[c].hashed[k].vaultAddress,
                                                   calls[c].nonce))
              /\ calls[c].req.op \in UserSignedOperations =>
                    /\ calls[c].signed[k].domain.name = "HyperliquidSignTransaction"
                    /\ calls[c].signed[k].primaryType # "Agent"
                    /\ DOMAIN calls[c].signed[k].types = {calls[c].signed[k].primaryType}
                    /\ calls[c].signed[k].message = calls[c].action
                    /\ "connectionId" \notin DOMAIN calls[c].signed[k].message
                    /\ calls[c].hashed = <<>>
        /\ \A k \in 1..Len(calls[c].sent) : calls[c].sent[k].action = calls[c].action

\* C4 witness: an order for a vault and the referrer call of the timer, both
\* L1 actions, were signed and sent.
C4_Witness ==
    /\ calls[1].req.op = "placeOrder"
    /\ calls[1].req.vaultAddress = VaultA
    /\ calls[1].pc = "done"
    /\ calls[0].req.op = "setReferrer"
    /\ calls[0].pc = "done"
    /\ calls[0].signed[1].domain.name = "Exchange"

\* C8: an optional field the caller did not supply is absent from what is
\* handed to the transport: a wire order has no key c without a cloid, an
\* order action no key builder without a builder, and the payload of any
\* operation no key vaultAddress without a vault address.
C8_AbsentFieldsOmitted ==
    \A c \in CallIds : \A k \in 1..Len(calls[c].sent) :
        /\ calls[c].req.op = "placeOrder" =>
              /\ \A i \in 1..Len(calls[c].req.orders) :
                    calls[c].req.orders[i].cloid = UndefinedStr =>
                        "c" \notin DOMAIN calls[c].sent[k].action.orders[i]
              /\ calls[c].req.builder = UndefinedObj =>
                    "builder" \notin DOMAIN calls[c].sent[k].action
              /\ calls[c].req.vaultAddress = Undefined =>
                    "vaultAddress" \notin DOMAIN calls[c].sent[k]
        /\ calls[c].req.op # "placeOrder" => "vaultAddress" \notin DOMAIN calls[c].sent[k]

\* The part of C8 about the action: c and builder are left out when not given.
C8_ActionFieldsOmitted ==
    \A c \in CallIds : \A k \in 1..Len(calls[c].sent) :
        calls[c].req.op = "placeOrder" =>
            /\ \A i \in 1..Len(calls[c].req.orders) :
                  calls[c].req.orders[i].cloid = UndefinedStr =>
                      "c" \notin DOMAIN calls[c].sent[k].action.orders[i]
            /\ calls[c].req.builder = UndefinedObj =>
                  "builder" \notin DOMAIN calls[c].sent[k].action

RECURSIVE Pow10(_)
Pow10(n) == IF n = 0 THEN 1 ELSE 10 * Pow10(n - 1)

\* The digits of x after the eighth fractional one, in units of the last.
TailUnits(x) == DigitsNat(SubSeq(x.frac, WireDecimals + 1, FracDigits))

\* The distance of x from its nearest decimal of eight fractional digits.
RoundingUnits(t) ==
    IF 2 * t >= Pow10(FracDigits - WireDecimals)
    THEN Pow10(FracDigits - WireDecimals) - t ELSE t

\* x cannot be written with eight decimals: rounding moves it by 1e-12 or more.
NonCanonical(x) == RoundingUnits(TailUnits(x)) >= Pow10(FracDigits - GuardExponent)

\* The orders a request encodes.
OrdersOf(req) ==
    CASE req.op = "placeOrder" -> req.orders
      [] req.op = "modifyOrder" -> <<req.order>>
      [] req.op = "batchModifyOrders" ->
            [i \in 1..Len(req.modifies) |-> req.modifies[i].order]
      [] OTHER -> <<>>

NonCanonicalOrder(o) ==
    \/ NonCanonical(o.limit_px)
    \/ NonCanonical(o.sz)
    \/ "trigger" \in DOMAIN o.order_type /\ NonCanonical(o.order_type.trigger.triggerPx)

InvalidTypeOrder(o) == DOMAIN o.order_type \cap {"limit", "trigger"} = {}

\* The errors that the inputs of a request call for.
ExpectedErrors(req) ==
    {[message |-> "Unknown asset", symbol |-> s] : s \in UnknownSymbols(req)}
    \cup (IF \E i \in 1..Len(OrdersOf(req)) : NonCanonicalOrder(OrdersOf(req)[i])
          THEN {[message |-> "floatToWire causes rounding"]} ELSE {})
    \cup (IF \E i \in 1..Len(OrdersOf(req)) : InvalidTypeOrder(OrdersOf(req)[i])
          THEN {[message |-> "Invalid order type"]} ELSE {})

SigningErrors ==
    {[message |-> "Account does not support signTypedData"],
     [message |-> "signTypedData rejected"]}

\* C9: if asset resolution, numeric canonicalization, order-type encoding or
\* signing fails (also for an account without signTypedData), the operation
\* rejects with that error and httpApi.makeRequest is never invoked for the
\* call: nothing is signed or sent for a request whose inputs call for an
\* error, nothing is sent without a signature, and a raised error is never
\* replaced.
C9_FailuresPropagate ==
    \A c \in CallIds :
        /\ (calls[c].req.op # "none" /\ ExpectedErrors(calls[c].req) # {}) =>
              /\ calls[c].signed = <<>>
              /\ calls[c].sent = <<>>
              /\ calls[c].pc \in {"init", "resolving", "rejected"}
              /\ calls[c].pc = "rejected" =>
                    calls[c].err \in ExpectedErrors(calls[c].req)
                                     \cup {[message |-> "initialize failed"]}
        /\ ~hasSignTypedData =>
              /\ calls[c].sent = <<>>
              /\ calls[c].pc \in {"idle", "init", "resolving", "rejected"}
        /\ (calls[c].errs \cap (ExpectedErrors(calls[c].req) \cup SigningErrors) # {}) =>
              /\ calls[c].pc = "rejected"
              /\ calls[c].err \in calls[c].errs
                                  \cap (ExpectedErrors(calls[c].req) \cup SigningErrors)
              /\ calls[c].sent = <<>>

\* C9 witness: the second order of a batch cannot be written with eight
\* decimals; the first was resolved and encoded, and the call has rejected
\* with the canonicalizer's error.
C9_Witness ==
    /\ calls[1].req.op = "placeOrder"
    /\ Len(calls[1].items) = 2
    /\ calls[1].items[1].st = "ok"
    /\ calls[1].items[2].st = "failed"
    /\ calls[1].pc = "rejected"
    /\ calls[1].err = [message |-> "floatToWire causes rounding"]
    /\ calls[1].sent = <<>>

\* C10: in every operation that references symbols, the action is hashed and
\* signed only after the resolution of every symbol it references has
\* succeeded, and it is built from the resolved indices.
C10_SignAfterResolution ==
    \A c \in CallIds :
        (calls[c].req.op \in SymbolOps /\ (calls[c].hashed # <<>> \/ calls[c].signed # <<>>)) =>
            /\ Len(calls[c].items) = Len(Symbols(calls[c].req))
            /\ \A i \in 1..Len(calls[c].items) :
                  /\ calls[c].items[i].st = "ok"
                  /\ calls[c].items[i].idx = symbolSource(Symbols(calls[c].req)[i]).val

\* C10 witness: a batch of two orders on different symbols was hashed and
\* signed after both resolutions.
C10_Witness ==
    /\ calls[1].req.op = "placeOrder"
    /\ Len(calls[1].items) = 2
    /\ calls[1].req.orders[1].coin = "ETH"
    /\ calls[1].req.orders[2].coin = "BTC"
    /\ Len(calls[1].hashed) = 1
    /\ calls[1].pc = "signing"

(***************************************************************************)
(* C11: the payload is the triple that was signed                          *)
(***************************************************************************)
\* The vault address of a payload: null when the payload has no such field.
PayloadVault(p) == IF "vaultAddress" \in DOMAIN p THEN p.vaultAddress ELSE Null

\* The nonce field of a user-signed action: time, or nonce for the approvals.
ActionNonce(action) == IF "time" \in DOMAIN action THEN action.time ELSE action.nonce

\* Payload p of an L1 operation against the one triple h that was hashed and
\* the typed data d that was signed.
BoundToHash(p, h, d) ==
    /\ p.action = h.action
    /\ p.nonce = h.nonce
    /\ PayloadVault(p) = h.vaultAddress
    /\ d.message.connectionId = actionHash(p.action, PayloadVault(p), p.nonce)

\* Payload p of a user-signed operation against the typed data d.
BoundToMessage(p, d, isMainnet) ==
    /\ p.action = d.message
    /\ p.action.signatureChainId = "0x66eee"
    /\ p.action.hyperliquidChain = Chain(isMainnet)
    /\ p.nonce = ActionNonce(d.message)

\* C11: in every payload handed to the transport, by any of the calls in
\* flight together, the action, nonce and vault address of an L1 operation
\* are the triple that went into the action hash whose phantom agent was
\* signed, and the action of a user-signed operation is the signed message,
\* stamped with signatureChainId and hyperliquidChain, the payload nonce
\* being that message's time (or nonce) field.
C11_PayloadIsSignedTriple ==
    \A c \in DOMAIN calls : \A k \in 1..Len(calls[c].sent) :
        /\ Len(calls[c].signed) = 1
        /\ IF calls[c].req.op \in L1Operations
           THEN /\ Len(calls[c].hashed) = 1
                /\ BoundToHash(calls[c].sent[k], calls[c].hashed[1], calls[c].signed[1])
           ELSE /\ calls[c].hashed = <<>>
                /\ BoundToMessage(calls[c].sent[k], calls[c].signed[1], IS_MAINNET)

\* C11 witness: an order batch for a vault and a usdTransfer, called
\* together, have both handed their payloads to the transport, the two
\* nonces being different clock readings.
C11_Witness ==
    /\ calls[1].req.op = "placeOrder"
    /\ calls[2].req.op = "usdTransfer"
    /\ calls[1].pc = "sending"
    /\ calls[2].pc = "sending"
    /\ calls[1].sent[1].vaultAddress = VaultA
    /\ calls[1].sent[1].nonce # calls[2].sent[1].nonce

(***************************************************************************)
(* C12: no retries inside a call                                           *)
(***************************************************************************)
\* The call has settled: its promise is fulfilled or rejected.
Settled(call) == call.pc \in {"done", "rejected"}

\* One step of call c, from before to after.
NoRetryStep(before, after) ==
    /\ Len(after.signed) <= 1
    /\ Len(after.sent) <= 1
    /\ Len(after.sent) > Len(before.sent) =>
          /\ before.pc = "signing"
          /\ Len(before.signed) = 1
          /\ after.signed = before.signed
    /\ Settled(before) =>
          /\ after.pc = before.pc
          /\ after.signed = before.signed
          /\ after.sent = before.sent

\* C12: in every step, each call has asked the account for a signature at
\* most once and handed at most one payload to the transport; a payload is
\* handed over only by a call that was awaiting its one signature; and a
\* call that has settled, by a failed signing or send as by anything else,
\* signs and sends nothing more.
C12_NoRetries ==
    [][\A c \in DOMAIN calls : NoRetryStep(calls[c], calls'[c])]_vars

\* C12 witness: the send of an operation failed and the signing of the
\* background setReferrer call failed, each after a single attempt.
C12_Witness ==
    /\ calls[1].pc = "rejected"
    /\ calls[1].err = [message |-> "makeRequest rejected"]
    /\ Len(calls[1].signed) = 1
    /\ Len(calls[1].sent) = 1
    /\ calls[0].pc = "rejected"
    /\ calls[0].err = [message |-> "signTypedData rejected"]
    /\ Len(calls[0].signed) = 1
    /\ calls[0].sent = <<>>

(***************************************************************************)
(* C13: the background referrer call                                       *)
(***************************************************************************)
\* Resolution i of call c was started and the symbol source gave an index.
ResolutionSucceeded(c, i) ==
    /\ calls[c].items[i].called
    /\ calls[c].items[i].idx # NoIndex

\* The part of C13 about scheduling: the timer is set at most once, only
\* when some resolution has succeeded, and never for a turnkey account; the
\* background call runs only from that timer.
C13_ScheduledAtMostOnce ==
    /\ scheduled <= 1
    /\ timers <= scheduled
    /\ (_i = 1) <=> (\E c \in DOMAIN calls : \E i \in 1..Len(calls[c].items) :
                        ResolutionSucceeded(c, i))
    /\ scheduled = 1 => (_i = 1 /\ ~turnkeyAccount)
    /\ turnkeyAccount => scheduled = 0
    /\ calls[0].pc # "idle" => (scheduled = 1 /\ timers = 0)

\* C13: under any interleaving of the resolutions of the calls in flight,
\* the background setReferrer call is scheduled at most once, only after a
\* resolution that succeeded and never for a turnkey account, and its
\* failure leaves every operation to settle with its own result: none is
\* cut off in flight.
C13_ReferrerIsolated ==
    /\ C13_ScheduledAtMostOnce
    /\ terminated => \A c \in DOMAIN calls \ {0} :
                        calls[c].pc \in {"idle", "done", "rejected"}

(***************************************************************************)
(* C14: initialization is coalesced                                        *)
(***************************************************************************)
\* The initialize() runs that have started and not settled.
RunsInFlight == {r \in DOMAIN runs : runs[r] \in {"symbols", "ws"}}

\* At most one run is in flight, and it is the one _initializing holds; an
\* initialized instance has exactly one run that succeeded and none in flight.
OneRunInFlight ==
    /\ Cardinality(RunsInFlight) <= 1
    /\ RunsInFlight = (IF _initializing = 0 THEN {} ELSE {_initializing})
    /\ _initialized <=> (\E r \in DOMAIN runs : runs[r] = "ok")
    /\ _initialized => /\ RunsInFlight = {}
                       /\ Cardinality({r \in DOMAIN runs : runs[r] = "ok"}) = 1

\* Call c enters connect() in this step: on an initialized instance it
\* starts and awaits nothing; when a run is in flight it awaits that run and
\* starts none; else it starts the one run it awaits.
CoalescedEnter(c) ==
    (calls[c].pc = "idle" /\ calls'[c].pc = "init") =>
        IF _initialized THEN calls'[c].run = 0 /\ runs' = runs
        ELSE IF RunsInFlight # {}
        THEN calls'[c].run \in RunsInFlight /\ runs' = runs
        ELSE /\ runs[calls'[c].run] = "none"
             /\ runs' = [runs EXCEPT ![calls'[c].run] = "symbols"]

\* C14: however many calls enter connect()/ensureInitialized() together, at
\* most one initialize() run is in flight at any time, a call that enters
\* while a run is in flight awaits that very run, and once a run has
\* succeeded no call starts another.
C14_InitializationCoalesced ==
    [][OneRunInFlight' /\ \A c \in DOMAIN calls : CoalescedEnter(c)]_vars

\* C14 witness: two calls await the same run, started by the first, while
\* it is connecting the WebSocket.
C14_Witness ==
    /\ calls[1].pc = "init"
    /\ calls[2].pc = "init"
    /\ calls[1].run = 2
    /\ calls[2].run = 2
    /\ runs[2] = "ws"
    /\ runs[3] = "none"

(***************************************************************************)
(* C15: a failed initialization                                            *)
(***************************************************************************)
InitializeFailed == [message |-> "initialize failed"]

\* The call has not got past ensureInitialized(): nothing resolved, hashed,
\* signed or sent.
NothingDone(call) ==
    /\ call.items = <<>>
    /\ call.hashed = <<>>
    /\ call.signed = <<>>
    /\ call.sent = <<>>

\* A call that awaits, or awaited, a run that has not succeeded has done
\* nothing, and once the run has failed it can only reject with the run's
\* error; nothing is done on an instance that is not initialized.
GatedByInitialization(call) ==
    /\ call.pc = "idle" => NothingDone(call)
    /\ ~_initialized => NothingDone(call)
    /\ call.run # 0 =>
          IF runs[call.run] = "ok" THEN TRUE
          ELSE /\ NothingDone(call)
               /\ call.pc \in {"init", "rejected"}
               /\ call.pc = "rejected" =>
                     (runs[call.run] = "failed" /\ call.err = InitializeFailed)

\* Run r fails in this step: the instance is not marked initialized and
\* _initializing is null again.
FailureResets(r) ==
    (runs[r] # "failed" /\ runs'[r] = "failed") =>
        /\ ~_initialized'
        /\ _initializing' = 0

\* Call c enters connect() after a failed run, none being in flight: it
\* starts a fresh run and awaits it.
RetryStartsFreshRun(c) ==
    (/\ calls[c].pc = "idle" /\ calls'[c].pc = "init"
     /\ ~_initialized /\ _initializing = 0) =>
        /\ calls'[c].run # 0
        /\ runs[calls'[c].run] = "none"
        /\ runs'[calls'[c].run] = "symbols"
        /\ _initializing' = calls'[c].run

\* C15: when symbolConversion.initialize() or ws.connect() fails, the
\* instance is not marked initialized and _initializing is reset to null,
\* every call that awaits the failed run can only reject with its error,
\* the next connect() starts a fresh run, and no call resolves, signs or
\* sends anything unless the run it awaited succeeded.
C15_FailedInitRetryable ==
    [][/\ \A r \in DOMAIN runs : FailureResets(r)
       /\ \A c \in DOMAIN calls :
             /\ RetryStartsFreshRun(c)
             /\ GatedByInitialization(calls[c])']_vars

\* C15 witness: the run the first call started has failed and the call has
\* rejected with its error, having done nothing; the second call started a
\* fresh run, which succeeded, and has sent its payload.
C15_Witness ==
    /\ runs[2] = "failed"
    /\ calls[1].pc = "rejected"
    /\ calls[1].err = InitializeFailed
    /\ NothingDone(calls[1])
    /\ calls[2].run = 3
    /\ runs[3] = "ok"
    /\ _initialized
    /\ Len(calls[2].sent) = 1

====
